---- MODULE Spec2Model ----
(***************************************************************************)
(* Order status bot: the order store (orders.py), the tool layer and the   *)
(* turn orchestrator with its fallback procedure (llm.py) and the          *)
(* conversation endpoints (app.py).                                        *)
(*                                                                         *)
(* Text is a sequence of one-character strings.  An Optional value is a    *)
(* sequence of length 0 (None) or 1.  A Python dict is a function.         *)
(***************************************************************************)
EXTENDS Integers, Sequences, FiniteSets, TLC

VARIABLES
    ORDERS,         \* orders.py:26   order id -> Order (base records)
    OVERRIDES,      \* orders.py:27   order id -> status
    CONVERSATIONS,  \* app.py:30      conversation id -> messages
    api_key,        \* llm.py:117-119 TRUE iff OPENAI_API_KEY is set and openai imports
    last,           \* the last completed call: its name, arguments and outcome
    canceled_ok,    \* order ids for which some cancel_order call returned ok=True
    posts,          \* number of post_message requests served
    pc,             \* racing callers of cancel_order: position in orders.py:71-79
    target,         \* racing callers: the order_id argument
    order,          \* racing callers: the local `order` read at orders.py:71
    result,         \* racing callers: the returned CancelOrderResult
    running,        \* event loop: the request whose handler it is running, 0 if none
    frames          \* event loop: request -> position and locals of its post_message

vars == <<ORDERS, OVERRIDES, CONVERSATIONS, api_key, last, canceled_ok, posts,
          pc, target, order, result, running, frames>>

raceVars == <<pc, target, order, result>>
loopVars == <<running, frames>>

-----------------------------------------------------------------------------
(* Bounds *)

MaxPosts == 2
MaxConvs == 1
NumCallers == 2

-----------------------------------------------------------------------------
(* Values *)

None == <<>>
Some(x) == <<x>>

Statuses == {"processing", "shipped", "canceled"}

\* Order ids the order file may hold, and the item each row carries.
CsvIds == {<<"1">>, <<"2">>}
ItemOf(oid) == IF oid = <<"1">> THEN "phone" ELSE "case"

\* models.py:17-24
Order(order_id, status, item) ==
    [order_id |-> order_id, status |-> status, item |-> item]

\* Python values handed to get_order / cancel_order by a caller.
PyStr(s) == [type |-> "str", v |-> s]
PyInt(n) == [type |-> "int", v |-> n]

DigitChar == <<"0", "1", "2", "3", "4", "5", "6", "7", "8", "9">>

RECURSIVE IntDigits(_)
IntDigits(n) ==
    IF n < 10 THEN <<DigitChar[n + 1]>>
    ELSE Append(IntDigits(n \div 10), DigitChar[(n % 10) + 1])

\* str(order_id), orders.py:54,77,78
str(x) == IF x.type = "int" THEN IntDigits(x.v) ELSE x.v

\* The order ids callers pass directly.
CallArgs == {PyStr(<<"1">>), PyStr(<<"2">>), PyStr(<<"1", "2">>), PyStr(<<>>),
             PyInt(1), PyInt(12)}

-----------------------------------------------------------------------------
(* Order store, orders.py.  A store is [ORDERS, OVERRIDES]; every operation  *)
(* yields its return value and the store it leaves behind.                   *)

Store == [ORDERS |-> ORDERS, OVERRIDES |-> OVERRIDES]

\* dict[k] = v
DictSet(d, k, v) == [x \in (DOMAIN d) \cup {k} |-> IF x = k THEN v ELSE d[x]]

\* The mapping _load_orders leaves in ORDERS: well-formed rows, one per id.
LoadedOrders ==
    UNION { [D -> Statuses] : D \in SUBSET CsvIds }

\* get_order that hands back the base record whatever the overrides say.
get_order_IgnoresOverride(S, order_id) ==
    LET oid == str(order_id) IN
    IF oid \notin DOMAIN S.ORDERS
    THEN [ret |-> None, S |-> S]
    ELSE [ret |-> Some(S.ORDERS[oid]), S |-> S]

\* get_order that records the status it resolved in OVERRIDES.
get_order_Caches(S, order_id) ==
    LET oid == str(order_id) IN
    IF oid \notin DOMAIN S.ORDERS
    THEN [ret |-> None, S |-> S]
    ELSE IF oid \in DOMAIN S.OVERRIDES
         THEN [ret |-> Some(Order(oid, S.OVERRIDES[oid], S.ORDERS[oid].item)),
               S |-> S]
         ELSE [ret |-> Some(S.ORDERS[oid]),
               S |-> [S EXCEPT !.OVERRIDES =
                         DictSet(S.OVERRIDES, oid, S.ORDERS[oid].status)]]

\* orders.py:52-61
get_order(S, order_id) ==
    LET oid == str(order_id) IN
    IF oid \notin DOMAIN S.ORDERS
    THEN [ret |-> None, S |-> S]
    ELSE IF oid \in DOMAIN S.OVERRIDES
         THEN [ret |-> Some(Order(oid, S.OVERRIDES[oid], S.ORDERS[oid].item)),
               S |-> S]
         ELSE [ret |-> Some(S.ORDERS[oid]), S |-> S]

\* models.py:76-88
CancelOrderResult(ok, reason, ord) ==
    [cls |-> "CancelOrderResult", ok |-> ok, reason |-> reason, order |-> ord]

\* cancel_order without the terminal-state guard of orders.py:74-75.
cancel_order_NoGuard(S, order_id) ==
    LET g == get_order(S, order_id) IN
    IF g.ret = None
    THEN [ret |-> CancelOrderResult(FALSE, Some("not_found"), None), S |-> g.S]
    ELSE [ret |-> CancelOrderResult(TRUE, None,
                     Some(Order(str(order_id), "canceled", g.ret[1].item))),
          S |-> [g.S EXCEPT !.OVERRIDES =
                     DictSet(g.S.OVERRIDES, str(order_id), "canceled")]]

\* cancel_order whose guard tests "shipped" alone.
cancel_order_ShippedOnly(S, order_id) ==
    LET g == get_order(S, order_id) IN
    IF g.ret = None
    THEN [ret |-> CancelOrderResult(FALSE, Some("not_found"), None), S |-> g.S]
    ELSE IF g.ret[1].status \in {"shipped"}
         THEN [ret |-> CancelOrderResult(FALSE, Some("immutable_status"), g.ret),
               S |-> g.S]
         ELSE [ret |-> CancelOrderResult(TRUE, None,
                          Some(Order(str(order_id), "canceled", g.ret[1].item))),
               S |-> [g.S EXCEPT !.OVERRIDES =
                          DictSet(g.S.OVERRIDES, str(order_id), "canceled")]]

\* cancel_order that hands back the base record in the immutable_status case.
cancel_order_BaseOrder(S, order_id) ==
    LET g == get_order(S, order_id) IN
    IF g.ret = None
    THEN [ret |-> CancelOrderResult(FALSE, Some("not_found"), None), S |-> g.S]
    ELSE IF g.ret[1].status \in {"shipped", "canceled"}
         THEN [ret |-> CancelOrderResult(FALSE, Some("immutable_status"),
                                         Some(S.ORDERS[str(order_id)])),
               S |-> g.S]
         ELSE [ret |-> CancelOrderResult(TRUE, None,
                          Some(Order(str(order_id), "canceled", g.ret[1].item))),
               S |-> [g.S EXCEPT !.OVERRIDES =
                          DictSet(g.S.OVERRIDES, str(order_id), "canceled")]]

\* cancel_order that writes the override before it looks the order up.
cancel_order_WriteFirst(S, order_id) ==
    LET g == get_order(S, order_id)
        W == [g.S EXCEPT !.OVERRIDES =
                 DictSet(g.S.OVERRIDES, str(order_id), "canceled")]
    IN
    IF g.ret = None
    THEN [ret |-> CancelOrderResult(FALSE, Some("not_found"), None), S |-> W]
    ELSE IF g.ret[1].status \in {"shipped", "canceled"}
         THEN [ret |-> CancelOrderResult(FALSE, Some("immutable_status"), g.ret),
               S |-> g.S]
         ELSE [ret |-> CancelOrderResult(TRUE, None,
                          Some(Order(str(order_id), "canceled", g.ret[1].item))),
               S |-> W]

\* cancel_order that rewrites the base record instead of writing an override.
cancel_order_InPlace(S, order_id) ==
    LET g == get_order(S, order_id)
        S1 == g.S
    IN
    IF g.ret = None
    THEN [ret |-> CancelOrderResult(FALSE, Some("not_found"), None), S |-> S1]
    ELSE IF g.ret[1].status \in {"shipped", "canceled"}
         THEN [ret |-> CancelOrderResult(FALSE, Some("immutable_status"), g.ret),
               S |-> S1]
         ELSE LET updated == Order(str(order_id), "canceled", g.ret[1].item) IN
              [ret |-> CancelOrderResult(TRUE, None, Some(updated)),
               S |-> [S1 EXCEPT !.ORDERS =
                          DictSet(S1.ORDERS, str(order_id), updated)]]

\* orders.py:64-79
cancel_order(S, order_id) ==
    LET g == get_order(S, order_id)
        S1 == g.S
    IN
    IF g.ret = None
    THEN [ret |-> CancelOrderResult(FALSE, Some("not_found"), None), S |-> S1]
    ELSE IF g.ret[1].status \in {"shipped", "canceled"}
         THEN [ret |-> CancelOrderResult(FALSE, Some("immutable_status"), g.ret),
               S |-> S1]
         ELSE [ret |-> CancelOrderResult(TRUE, None,
                          Some(Order(str(order_id), "canceled", g.ret[1].item))),
               S |-> [S1 EXCEPT !.OVERRIDES =
                          DictSet(S1.OVERRIDES, str(order_id), "canceled")]]

\* The effective status of an order id in the current state ("absent" if none).
EffStatus(orders, overrides, oid) ==
    IF oid \notin DOMAIN orders THEN "absent"
    ELSE IF oid \in DOMAIN overrides THEN overrides[oid]
    ELSE orders[oid].status

-----------------------------------------------------------------------------
(* Initial state: orders loaded, nothing overridden, no conversation.        *)

Callers == 1..NumCallers

NoCall == [op |-> "none"]

InitStore ==
    /\ \E st \in LoadedOrders :
          ORDERS = [oid \in DOMAIN st |-> Order(oid, st[oid], ItemOf(oid))]
    /\ OVERRIDES = <<>>

\* The requests the event loop serves, in order of arrival.
Requests == 1..MaxPosts

\* The frame of a handler that has not started.  `before` and `added` record,
\* for the properties, the length of the conversation when the handler got it
\* and the messages the handler has appended since.
IdleFrame ==
    [pc |-> "idle", conversation_id |-> 0, content |-> <<>>, engine |-> <<>>,
     assistant_msg |-> None, tool_result |-> None, before |-> 0, added |-> <<>>]

InitLoop ==
    /\ running = 0
    /\ frames = [r \in Requests |-> IdleFrame]

InitRace ==
    /\ pc = [t \in Callers |-> "idle"]
    /\ target = [t \in Callers |-> PyStr(<<>>)]
    /\ order = [t \in Callers |-> None]
    /\ result = [t \in Callers |-> None]

Init ==
    /\ InitStore
    /\ CONVERSATIONS = <<>>
    /\ api_key \in BOOLEAN
    /\ last = NoCall
    /\ canceled_ok = {}
    /\ posts = 0
    /\ InitRace
    /\ InitLoop

-----------------------------------------------------------------------------
(* Direct calls of the order store, one call per step.  Calls do not overlap: *)
(* a call starts when the outcome of the one before has been taken.          *)

GetOrderCall ==
    /\ last = NoCall
    /\ \E a \in CallArgs :
        LET r == get_order(Store, a) IN
        /\ ORDERS' = r.S.ORDERS
        /\ OVERRIDES' = r.S.OVERRIDES
        /\ last' = [op |-> "get_order", arg |-> a, ret |-> r.ret, pre |-> Store]
        /\ UNCHANGED <<CONVERSATIONS, api_key, canceled_ok, posts, raceVars, loopVars>>

CancelOrderCall ==
    /\ last = NoCall
    /\ \E a \in CallArgs :
        LET r == cancel_order(Store, a) IN
        /\ ORDERS' = r.S.ORDERS
        /\ OVERRIDES' = r.S.OVERRIDES
        /\ last' = [op |-> "cancel_order", arg |-> a, ret |-> r.ret, pre |-> Store]
        /\ canceled_ok' = IF r.ret.ok THEN canceled_ok \cup {str(a)} ELSE canceled_ok
        /\ UNCHANGED <<CONVERSATIONS, api_key, posts, raceVars, loopVars>>

-----------------------------------------------------------------------------
(* cancel_order called from NumCallers threads.  The function takes no lock, *)
(* so a thread switch can fall between any two of its statements.            *)

\* orders.py:71   order = get_order(order_id)
RaceRead(t) ==
    /\ pc[t] = "idle"
    /\ \E a \in CallArgs :
          /\ target' = [target EXCEPT ![t] = a]
          /\ order' = [order EXCEPT ![t] = get_order(Store, a).ret]
    /\ pc' = [pc EXCEPT ![t] = "check"]
    /\ UNCHANGED <<loopVars, ORDERS, OVERRIDES, CONVERSATIONS, api_key, last, canceled_ok,
                   posts, result>>

\* orders.py:72-75   the two early returns
RaceCheck(t) ==
    /\ pc[t] = "check"
    /\ IF order[t] = None
       THEN /\ result' = [result EXCEPT ![t] =
                            Some(CancelOrderResult(FALSE, Some("not_found"), None))]
            /\ pc' = [pc EXCEPT ![t] = "done"]
       ELSE IF order[t][1].status \in {"shipped", "canceled"}
            THEN /\ result' = [result EXCEPT ![t] =
                        Some(CancelOrderResult(FALSE, Some("immutable_status"),
                                               order[t]))]
                 /\ pc' = [pc EXCEPT ![t] = "done"]
            ELSE /\ result' = result
                 /\ pc' = [pc EXCEPT ![t] = "write"]
    /\ UNCHANGED <<loopVars, ORDERS, OVERRIDES, CONVERSATIONS, api_key, last, canceled_ok,
                   posts, target, order>>

\* orders.py:77   OVERRIDES[str(order_id)] = "canceled"
RaceWrite(t) ==
    /\ pc[t] = "write"
    /\ OVERRIDES' = DictSet(OVERRIDES, str(target[t]), "canceled")
    /\ pc' = [pc EXCEPT ![t] = "return"]
    /\ UNCHANGED <<loopVars, ORDERS, CONVERSATIONS, api_key, last, canceled_ok, posts,
                   target, order, result>>

\* orders.py:78-79
RaceReturn(t) ==
    /\ pc[t] = "return"
    /\ result' = [result EXCEPT ![t] =
                    Some(CancelOrderResult(TRUE, None,
                           Some(Order(str(target[t]), "canceled", order[t][1].item))))]
    /\ canceled_ok' = canceled_ok \cup {str(target[t])}
    /\ pc' = [pc EXCEPT ![t] = "done"]
    /\ UNCHANGED <<loopVars, ORDERS, OVERRIDES, CONVERSATIONS, api_key, last, posts,
                   target, order>>

NextRace ==
    \E t \in Callers : RaceRead(t) \/ RaceCheck(t) \/ RaceWrite(t) \/ RaceReturn(t)

SpecRace == Init /\ [][NextRace]_vars

-----------------------------------------------------------------------------
(* Text *)

Digits == {"0", "1", "2", "3", "4", "5", "6", "7", "8", "9"}
Letters == {"a", "c", "e", "l", "n", "x", "C", "X"}

IsDigit(c) == c \in Digits
\* \w of the re module
IsWord(c) == c \in Digits \cup Letters \cup {"_"}

\* str.lower(), one character
LowerChar(c) == IF c = "C" THEN "c" ELSE IF c = "X" THEN "x" ELSE c

\* str.lower(), llm.py:200
lower(s) == [i \in 1..Len(s) |-> LowerChar(s[i])]

\* \b between s[i] and s[i+1]; outside the text counts as a non-word character
WordBoundary(s, i) ==
    LET before == i >= 1 /\ IsWord(s[i])
        after == i + 1 <= Len(s) /\ IsWord(s[i + 1])
    IN before # after

\* \b(\d+)\b matches s[i..j]
DigitsMatch(s, i, j) ==
    /\ 1 <= i /\ i <= j /\ j <= Len(s)
    /\ \A k \in i..j : IsDigit(s[k])
    /\ WordBoundary(s, i - 1)
    /\ WordBoundary(s, j)

Min(A) == CHOOSE m \in A : \A n \in A : m <= n
Max(A) == CHOOSE m \in A : \A n \in A : m >= n

\* re.search(r"\b(\d+)\b", content) and match.group(1), llm.py:201-202:
\* the leftmost start that matches, and from it the longest \d+ that matches.
re_search_order_id(s) ==
    LET starts == {i \in 1..Len(s) : \E j \in i..Len(s) : DigitsMatch(s, i, j)}
    IN
    IF starts = {} THEN None
    ELSE LET i == Min(starts)
             j == Max({k \in i..Len(s) : DigitsMatch(s, i, k)})
         IN Some(SubSeq(s, i, j))

CancelWord == <<"c", "a", "n", "c", "e", "l">>

\* "cancel" in content, llm.py:205
contains_cancel(s) ==
    \E i \in 1..Len(s) :
        i + Len(CancelWord) - 1 <= Len(s)
        /\ SubSeq(s, i, i + Len(CancelWord) - 1) = CancelWord

-----------------------------------------------------------------------------
(* Models, models.py *)

\* models.py:27-38
Message(role, content, tool_name) ==
    [role |-> role, content |-> content, tool_name |-> tool_name]

\* models.py:60-67
FindOrderResult(found, ord) ==
    [cls |-> "FindOrderResult", found |-> found, order |-> ord]

\* BaseModel.model_dump(): the fields as a dict, without the class
model_dump(r) == [f \in (DOMAIN r) \ {"cls"} |-> r[f]]

\* BaseModel.json() / json.dumps(): the JSON text of a value
json_dumps(d) == <<"json", d>>

\* Tool arguments after json.loads: a dict with a string order_id, a dict with a
\* non-string order_id, a dict without order_id, or a JSON value that is no dict.
ArgStr(s) == [type |-> "str", order_id |-> s]
ArgInt == [type |-> "int", order_id |-> <<>>]
ArgMissing == [type |-> "missing", order_id |-> <<>>]
ArgNotDict == [type |-> "notdict", order_id |-> <<>>]

ToolArgs == {ArgStr(<<"1">>), ArgStr(<<"2">>), ArgStr(<<>>), ArgInt, ArgMissing,
             ArgNotDict}

\* FindOrderInput(**args) / CancelOrderInput(**args), models.py:54-73 and
\* llm.py:41-44, 56-59: what the construction raises ("none" if it succeeds).
\* ** of a non-mapping is a TypeError, which the except clause does not catch;
\* a ValidationError is re-raised as ValueError.
input_error(args) ==
    IF args.type = "notdict" THEN "TypeError"
    ELSE IF args.type \in {"missing", "int"} THEN "ValueError"
    ELSE "none"

-----------------------------------------------------------------------------
(* Tool layer, llm.py:36-60 *)

\* llm.py:36-48
find_order_tool(S, args) ==
    IF input_error(args) # "none"
    THEN [ret |-> None, raised |-> input_error(args), S |-> S]
    ELSE LET g == get_order(S, PyStr(args.order_id)) IN
         IF g.ret # None
         THEN [ret |-> Some(FindOrderResult(TRUE, g.ret)), raised |-> "none",
               S |-> g.S]
         ELSE [ret |-> Some(FindOrderResult(FALSE, None)), raised |-> "none",
               S |-> g.S]

\* llm.py:51-60
cancel_order_tool(S, args) ==
    IF input_error(args) # "none"
    THEN [ret |-> None, raised |-> input_error(args), S |-> S]
    ELSE LET c == cancel_order(S, PyStr(args.order_id)) IN
         [ret |-> Some(c.ret), raised |-> "none", S |-> c.S]

-----------------------------------------------------------------------------
(* Turn orchestrator, llm.py:106-224.  A turn yields the assistant message,   *)
(* the tool result, the exception it raised ("none" if it returned), the      *)
(* store and the caller's message list as the call leaves them, the tool      *)
(* calls it made and the requests it sent to the engine.                      *)

Outcome(assistant, tool_result, raised, S, messages, tools, requests) ==
    [assistant |-> assistant, tool_result |-> tool_result, raised |-> raised,
     S |-> S, messages |-> messages, tools |-> tools, requests |-> requests]

ToolCall(name, args, r) == [name |-> name, args |-> args, ret |-> r.ret]

Reply(content) == Some(Message("assistant", content, None))

\* The cancel path answering every refused cancel with the could-not-find reply.
_fallback_cancel_NoImmutableReply(S, messages, order_id) ==
    LET args == ArgStr(order_id)
        r == cancel_order_tool(S, args)
        call == <<ToolCall("cancel_order", args, r)>>
    IN
    IF r.raised # "none"
    THEN Outcome(None, None, r.raised, r.S, messages, call, <<>>)
    ELSE LET res == r.ret[1]
             msg == IF res.ok
                    THEN <<"Order ">> \o order_id
                             \o <<" has been canceled successfully.">>
                    ELSE <<"I couldn't find an order with ID ">> \o order_id
                             \o <<".">>
         IN Outcome(Reply(msg), Some(model_dump(res)), "none", r.S, messages,
                    call, <<>>)

\* llm.py:205-215, the cancel path of the fallback
_fallback_cancel(S, messages, order_id) ==
    LET args == ArgStr(order_id)
        r == cancel_order_tool(S, args)
        call == <<ToolCall("cancel_order", args, r)>>
    IN
    IF r.raised # "none"
    THEN Outcome(None, None, r.raised, r.S, messages, call, <<>>)
    ELSE LET res == r.ret[1]
             msg == IF res.ok
                    THEN <<"Order ">> \o order_id
                             \o <<" has been canceled successfully.">>
                    ELSE IF res.reason = Some("not_found")
                    THEN <<"I couldn't find an order with ID ">> \o order_id
                             \o <<".">>
                    ELSE <<"Order ">> \o order_id
                             \o <<" cannot be canceled because it is ",
                                  res.order[1].status, ".">>
         IN Outcome(Reply(msg), Some(model_dump(res)), "none", r.S, messages,
                    call, <<>>)

\* The lookup path attaching the tool result only when the order was found.
_fallback_lookup_DropsNotFound(S, messages, order_id) ==
    LET args == ArgStr(order_id)
        r == find_order_tool(S, args)
        call == <<ToolCall("find_order", args, r)>>
    IN
    IF r.raised # "none"
    THEN Outcome(None, None, r.raised, r.S, messages, call, <<>>)
    ELSE LET res == r.ret[1]
             msg == IF res.found
                    THEN <<"Order ">> \o order_id
                             \o <<" is currently ", res.order[1].status, ".">>
                    ELSE <<"I couldn't find an order with ID ">> \o order_id
                             \o <<".">>
         IN Outcome(Reply(msg), IF res.found THEN Some(model_dump(res)) ELSE None,
                    "none", r.S, messages, call, <<>>)

\* llm.py:216-224, the lookup path of the fallback
_fallback_lookup(S, messages, order_id) ==
    LET args == ArgStr(order_id)
        r == find_order_tool(S, args)
        call == <<ToolCall("find_order", args, r)>>
    IN
    IF r.raised # "none"
    THEN Outcome(None, None, r.raised, r.S, messages, call, <<>>)
    ELSE LET res == r.ret[1]
             msg == IF res.found
                    THEN <<"Order ">> \o order_id
                             \o <<" is currently ", res.order[1].status, ".">>
                    ELSE <<"I couldn't find an order with ID ">> \o order_id
                             \o <<".">>
         IN Outcome(Reply(msg), Some(model_dump(res)), "none", r.S, messages,
                    call, <<>>)

\* The fallback matching the word on the text as typed, without lower-casing it.
_fallback_chat_turn_CaseSensitive(S, messages) ==
    IF Len(messages) = 0
    THEN Outcome(Reply(<<"Hello! What can I help you with?">>), None, "none",
                 S, messages, <<>>, <<>>)
    ELSE
    LET last_message == messages[Len(messages)] IN
    IF last_message.role # "user"
    THEN Outcome(Reply(<<"Awaiting your instructions.">>), None, "none",
                 S, messages, <<>>, <<>>)
    ELSE
    LET content == last_message.content
        match == re_search_order_id(content)
    IN
    IF match = None
    THEN Outcome(Reply(<<"Please provide an order ID.">>), None, "none",
                 S, messages, <<>>, <<>>)
    ELSE IF contains_cancel(content)
         THEN _fallback_cancel(S, messages, match[1])
         ELSE _fallback_lookup(S, messages, match[1])

\* The fallback reading the first message of the history instead of the last.
_fallback_chat_turn_FirstMessage(S, messages) ==
    IF Len(messages) = 0
    THEN Outcome(Reply(<<"Hello! What can I help you with?">>), None, "none",
                 S, messages, <<>>, <<>>)
    ELSE
    LET last_message == messages[1] IN
    IF last_message.role # "user"
    THEN Outcome(Reply(<<"Awaiting your instructions.">>), None, "none",
                 S, messages, <<>>, <<>>)
    ELSE
    LET content == lower(last_message.content)
        match == re_search_order_id(content)
    IN
    IF match = None
    THEN Outcome(Reply(<<"Please provide an order ID.">>), None, "none",
                 S, messages, <<>>, <<>>)
    ELSE IF contains_cancel(content)
         THEN _fallback_cancel(S, messages, match[1])
         ELSE _fallback_lookup(S, messages, match[1])

\* llm.py:184-224
_fallback_chat_turn(S, messages) ==
    IF Len(messages) = 0
    THEN Outcome(Reply(<<"Hello! What can I help you with?">>), None, "none",
                 S, messages, <<>>, <<>>)
    ELSE
    LET last_message == messages[Len(messages)] IN
    IF last_message.role # "user"
    THEN Outcome(Reply(<<"Awaiting your instructions.">>), None, "none",
                 S, messages, <<>>, <<>>)
    ELSE
    LET content == lower(last_message.content)
        match == re_search_order_id(content)
    IN
    IF match = None
    THEN Outcome(Reply(<<"Please provide an order ID.">>), None, "none",
                 S, messages, <<>>, <<>>)
    ELSE IF contains_cancel(content)
         THEN _fallback_cancel(S, messages, match[1])
         ELSE _fallback_lookup(S, messages, match[1])

\* llm.py:63-69
_system_prompt == <<"You are an order assistant. Use the available tools ...">>

\* llm.py:123-137
openai_message(msg) ==
    IF msg.role = "tool"
    THEN [role |-> "tool", content |-> msg.content, name |-> msg.tool_name]
    ELSE [role |-> msg.role, content |-> msg.content]

\* The request context built in the caller's list: messages.insert(0, system).
openai_messages_InPlace(messages) ==
    LET context == <<[role |-> "system", content |-> _system_prompt]>>
                      \o [i \in 1..Len(messages) |-> openai_message(messages[i])]
    IN [context |-> context,
        messages |-> <<Message("system", _system_prompt, None)>> \o messages]

\* llm.py:123-137: the request context, built in a list of its own; the
\* caller's list is left as it was.
openai_messages(messages) ==
    [context |-> <<[role |-> "system", content |-> _system_prompt]>>
                    \o [i \in 1..Len(messages) |-> openai_message(messages[i])],
     messages |-> messages]

\* What the engine answers to the primary request of one turn: a direct reply,
\* or a function call with a tool name and an argument text that json.loads
\* either rejects (arguments.ok = FALSE) or parses to arguments.value.
DirectReply(content) ==
    [finish_reason |-> "stop", fn_name |-> "", content |-> content,
     arguments |-> [ok |-> FALSE, value |-> ArgMissing]]
FunctionCall(fn_name, arguments) ==
    [finish_reason |-> "function_call", fn_name |-> fn_name, content |-> <<>>,
     arguments |-> arguments]
Malformed == [ok |-> FALSE, value |-> ArgMissing]
Parsed(args) == [ok |-> TRUE, value |-> args]

\* The engine's answer to the follow-up request.
FollowupContent == <<"Here is what I found.">>

\* The dispatch running find_order for every name that is not cancel_order.
dispatch_tool_DefaultsToFind(S, fn_name, args_dict) ==
    IF fn_name = "cancel_order"
    THEN [known |-> TRUE, r |-> cancel_order_tool(S, args_dict)]
    ELSE [known |-> TRUE, r |-> find_order_tool(S, args_dict)]

\* llm.py:156-162: the tool named by the engine is run on the parsed arguments;
\* a name that is neither find_order nor cancel_order runs nothing.
dispatch_tool(S, fn_name, args_dict) ==
    IF fn_name = "find_order"
    THEN [known |-> TRUE, r |-> find_order_tool(S, args_dict)]
    ELSE IF fn_name = "cancel_order"
    THEN [known |-> TRUE, r |-> cancel_order_tool(S, args_dict)]
    ELSE [known |-> FALSE, r |-> [ret |-> None, raised |-> "none", S |-> S]]

\* The follow-up context sent without the tool message.
followup_messages_NoToolMessage(context, tool_message) == context

\* llm.py:164-170: the follow-up context is the primary context plus the tool
\* message.
followup_messages(context, tool_message) ==
    context \o <<[role |-> "tool", content |-> tool_message.content,
                  name |-> tool_message.tool_name]>>

\* llm.py:106-181
chat_turn(S, key, messages, engine) ==
    IF ~key
    THEN _fallback_chat_turn(S, messages)
    ELSE
    LET built == openai_messages(messages)
        primary == built.context
        msgs == built.messages
    IN
    IF engine.finish_reason = "function_call"
    THEN
        IF ~engine.arguments.ok
        THEN Outcome(Reply(<<"Sorry, I couldn't parse the tool arguments.">>),
                     None, "none", S, msgs, <<>>, <<primary>>)
        ELSE
        LET args_dict == engine.arguments.value
            d == dispatch_tool(S, engine.fn_name, args_dict)
        IN
        IF ~d.known
        THEN Outcome(Reply(<<"Unknown tool ", engine.fn_name, ".">>),
                     None, "none", S, msgs, <<>>, <<primary>>)
        ELSE
        LET r == d.r
            call == <<ToolCall(engine.fn_name, args_dict, r)>>
        IN
        IF r.raised # "none"
        THEN Outcome(None, None, r.raised, r.S, msgs, call, <<primary>>)
        ELSE
        LET tool_message == Message("tool", json_dumps(model_dump(r.ret[1])),
                                    Some(engine.fn_name))
            followup == followup_messages(primary, tool_message)
        IN Outcome(Reply(FollowupContent), Some(model_dump(r.ret[1])), "none",
                   r.S, msgs, call, <<primary, followup>>)
    ELSE Outcome(Reply(engine.content), None, "none", S, msgs, <<>>,
                 <<primary>>)

-----
(* Inputs of the turns *)

MaxPrefix == 1

Contents == {
    <<"c", "a", "n", "c", "e", "l", " ", "1">>,
    <<"C", "a", "n", "c", "e", "l", " ", "2">>,
    <<"1">>,
    <<"2", " ", "1">>,
    <<"x", "1", " ", "1", "2">>,
    <<"x", "1">>,
    <<>>,
    <<"c", "a", "n", "c", "e", "l">>,
    <<"c", "a", "n", "c", "e", "l", "1", " ", "2">> }

AssistantMsg == Message("assistant", <<"Awaiting your instructions.">>, None)
ToolMsg == Message("tool", json_dumps(model_dump(FindOrderResult(FALSE, None))),
                   Some("tool"))

PrefixMsgs == {Message("user", <<"c", "a", "n", "c", "e", "l", " ", "1">>, None),
               AssistantMsg}
LastMsgs == {Message("user", c, None) : c \in Contents} \cup {AssistantMsg, ToolMsg}

RECURSIVE SeqsUpTo(_, _)
SeqsUpTo(A, n) ==
    IF n = 0 THEN {<<>>}
    ELSE LET shorter == SeqsUpTo(A, n - 1) IN
         shorter \cup {Append(p, a) : p \in shorter, a \in A}

Histories ==
    {<<>>} \cup {Append(p, m) : p \in SeqsUpTo(PrefixMsgs, MaxPrefix), m \in LastMsgs}

EngineArgs == {Parsed(a) : a \in ToolArgs} \cup {Malformed}

EngineResponses ==
    {DirectReply(<<"How can I help?">>)}
      \cup {FunctionCall(f, a) : f \in {"find_order", "cancel_order", "get_weather"},
                                  a \in EngineArgs}

\* The order ids whose cancel_order call returned ok=True among the tool calls.
CanceledBy(tools) ==
    {tools[i].args.order_id : i \in {k \in 1..Len(tools) :
        /\ tools[k].name = "cancel_order"
        /\ tools[k].ret # None
        /\ tools[k].ret[1].ok}}

-----------------------------------------------------------------------------
(* Direct calls of the tools and of chat_turn, one call per step.            *)

FindOrderToolCall ==
    /\ last = NoCall
    /\ \E a \in ToolArgs :
        LET r == find_order_tool(Store, a) IN
        /\ ORDERS' = r.S.ORDERS
        /\ OVERRIDES' = r.S.OVERRIDES
        /\ last' = [op |-> "find_order_tool", arg |-> a, ret |-> r.ret,
                    raised |-> r.raised, pre |-> Store]
        /\ UNCHANGED <<CONVERSATIONS, api_key, canceled_ok, posts, raceVars, loopVars>>

CancelOrderToolCall ==
    /\ last = NoCall
    /\ \E a \in ToolArgs :
        LET r == cancel_order_tool(Store, a) IN
        /\ ORDERS' = r.S.ORDERS
        /\ OVERRIDES' = r.S.OVERRIDES
        /\ last' = [op |-> "cancel_order_tool", arg |-> a, ret |-> r.ret,
                    raised |-> r.raised, pre |-> Store]
        /\ canceled_ok' = canceled_ok
                \cup CanceledBy(<<ToolCall("cancel_order", a, r)>>)
        /\ UNCHANGED <<CONVERSATIONS, api_key, posts, raceVars, loopVars>>

TurnStep(h, e) ==
    /\ last = NoCall
    /\ \E out \in {chat_turn(Store, api_key, h, e)} :
          /\ ORDERS' = out.S.ORDERS
          /\ OVERRIDES' = out.S.OVERRIDES
          /\ last' = [op |-> "chat_turn", messages |-> h, engine |-> e,
                      out |-> out, pre |-> Store]
          /\ canceled_ok' = canceled_ok \cup CanceledBy(out.tools)
    /\ UNCHANGED <<CONVERSATIONS, api_key, posts, raceVars, loopVars>>

\* No engine configured: the fallback procedure answers.
FallbackTurnCall ==
    /\ ~api_key
    /\ \E h \in Histories : TurnStep(h, DirectReply(<<>>))

\* Engine configured: the engine's answer is an input of the turn.
EngineTurnCall ==
    /\ api_key
    /\ \E h \in Histories, e \in EngineResponses : TurnStep(h, e)

-----------------------------------------------------------------------------
(* Views of a completed call *)

\* Every order id a call can name.
AllIds == {str(a) : a \in CallArgs} \cup {a.order_id : a \in ToolArgs}

\* The cancel_order invocations of a completed call: order id and result.
CancelsIn(l) ==
    IF l.op = "cancel_order" THEN {[oid |-> str(l.arg), ret |-> model_dump(l.ret)]}
    ELSE IF l.op = "cancel_order_tool"
    THEN IF l.ret = None THEN {}
         ELSE {[oid |-> l.arg.order_id, ret |-> model_dump(l.ret[1])]}
    ELSE IF l.op = "chat_turn"
    THEN {[oid |-> l.out.tools[i].args.order_id,
           ret |-> model_dump(l.out.tools[i].ret[1])] :
            i \in {k \in 1..Len(l.out.tools) :
                     /\ l.out.tools[k].name = "cancel_order"
                     /\ l.out.tools[k].ret # None}}
    ELSE {}

\* The get_order lookups a completed call reports: order id and Optional order.
GetsIn(l) ==
    IF l.op = "get_order" THEN {[oid |-> str(l.arg), ret |-> l.ret]}
    ELSE IF l.op = "find_order_tool"
    THEN IF l.ret = None THEN {}
         ELSE {[oid |-> l.arg.order_id, ret |-> l.ret[1].order]}
    ELSE IF l.op = "chat_turn"
    THEN {[oid |-> l.out.tools[i].args.order_id,
           ret |-> l.out.tools[i].ret[1].order] :
            i \in {k \in 1..Len(l.out.tools) :
                     /\ l.out.tools[k].name = "find_order"
                     /\ l.out.tools[k].ret # None}}
    ELSE {}

\* The order ids a completed call canceled (cancel_order returned ok=True).
SucceededCancels(l) == {c.oid : c \in {d \in CancelsIn(l) : d.ret.ok}}

IsCall(l) == l.op # "none"

-----------------------------------------------------------------------------
(* Claims *)

\* C1. For every order whose status is processing and every N >= 2 callers that
\* invoke cancel on that id concurrently, exactly one call returns ok=true and
\* each other call returns ok=false with reason=immutable_status.  Stated on the
\* states in which all NumCallers racing calls have returned and name one id.
C1_ExactlyOneRacerSucceeds ==
    \A oid \in DOMAIN ORDERS :
        ( /\ ORDERS[oid].status = "processing"
          /\ \A t \in Callers : pc[t] = "done" /\ str(target[t]) = oid )
        => /\ Cardinality({t \in Callers : result[t][1].ok}) = 1
           /\ \A t \in Callers :
                ~result[t][1].ok => result[t][1].reason = Some("immutable_status")

\* The second half of C1: the status check and the override write of one cancel
\* call are never interleaved with those of another cancel call on the same id.
C1_CriticalSection ==
    \A t, u \in Callers :
        (t # u /\ str(target[t]) = str(target[u]))
        => ~(pc[t] \in {"check", "write"} /\ pc[u] \in {"check", "write"})

\* C2. The effective status of an order changes only by the step
\* processing -> canceled, only inside a cancel call that returns ok=true for
\* that id; shipped and canceled are kept in every later state.
C2_OnlyProcessingToCanceled ==
    [][\A oid \in AllIds :
         LET before == EffStatus(ORDERS, OVERRIDES, oid)
             after == EffStatus(ORDERS', OVERRIDES', oid)
         IN /\ before # after =>
                 /\ before = "processing"
                 /\ after = "canceled"
                 /\ IsCall(last')
                 /\ oid \in SucceededCancels(last')
            /\ before \in {"shipped", "canceled"} => after = before]_vars

C2_Witness ==
    /\ last.op = "chat_turn"
    /\ \E oid \in SucceededCancels(last) :
          /\ EffStatus(last.pre.ORDERS, last.pre.OVERRIDES, oid) = "processing"
          /\ EffStatus(ORDERS, OVERRIDES, oid) = "canceled"

\* C3. After cancel(order_id) has returned ok=true, every later get(order_id),
\* direct, through the find_order tool or in a lookup turn, returns an order
\* with status canceled (the tool reports found=true).
C3_GetAfterCancelIsCanceled ==
    [][IsCall(last') =>
         /\ \A g \in GetsIn(last') :
              g.oid \in canceled_ok =>
                  g.ret # None /\ g.ret[1].status = "canceled"
                  /\ g.ret[1].order_id = g.oid
         /\ (last'.op = "find_order_tool" /\ last'.ret # None
                /\ last'.arg.order_id \in canceled_ok) => last'.ret[1].found
         /\ (last'.op = "chat_turn" /\ GetsIn(last') # {}
                /\ \E g \in GetsIn(last') : g.oid \in canceled_ok)
              => /\ last'.out.tool_result # None
                 /\ last'.out.tool_result[1].found
                 /\ last'.out.tool_result[1].order[1].status = "canceled"]_vars

C3_Witness ==
    /\ last.op = "chat_turn"
    /\ ~api_key
    /\ \E g \in GetsIn(last) : g.oid \in canceled_ok /\ g.ret # None

\* C4. Once cancel(order_id) has returned ok=true, every subsequent
\* cancel(order_id) returns ok=false, reason=immutable_status with
\* order.status=canceled, and leaves the Override Layer exactly as it was.
C4_CancelAfterSuccess ==
    [][IsCall(last') =>
         \A c \in CancelsIn(last') :
            c.oid \in canceled_ok =>
                /\ c.ret.ok = FALSE
                /\ c.ret.reason = Some("immutable_status")
                /\ c.ret.order # None
                /\ c.ret.order[1].status = "canceled"
                /\ OVERRIDES' = OVERRIDES]_vars

C4_Witness ==
    /\ last.op = "cancel_order"
    /\ str(last.arg) \in canceled_ok
    /\ ~last.ret.ok

\* C5. cancel on an order whose effective status is shipped or canceled returns
\* ok=false, reason=immutable_status with order equal to the unchanged
\* effective order, and leaves ORDERS and OVERRIDES unchanged.
C5_ImmutableStatus ==
    IsCall(last) =>
        \A c \in CancelsIn(last) :
            LET eff == EffStatus(last.pre.ORDERS, last.pre.OVERRIDES, c.oid) IN
            eff \in {"shipped", "canceled"} =>
                /\ c.ret.ok = FALSE
                /\ c.ret.reason = Some("immutable_status")
                /\ c.ret.order =
                      Some(Order(c.oid, eff, last.pre.ORDERS[c.oid].item))
                /\ ORDERS = last.pre.ORDERS
                /\ OVERRIDES = last.pre.OVERRIDES
                /\ EffStatus(ORDERS, OVERRIDES, c.oid) = eff

C5_Witness ==
    /\ last.op = "cancel_order_tool"
    /\ \E c \in CancelsIn(last) :
          /\ c.oid \in DOMAIN last.pre.OVERRIDES
          /\ c.ret.reason = Some("immutable_status")

\* C6. cancel on an order id that has no base record returns ok=false,
\* reason=not_found, order absent, and records no override for that id; the id
\* stays absent, so every later get and cancel of it finds it absent too.
C6_NotFound ==
    [][\A oid \in AllIds :
         oid \notin DOMAIN ORDERS =>
            /\ oid \notin DOMAIN ORDERS'
            /\ oid \notin DOMAIN OVERRIDES'
            /\ \A c \in CancelsIn(last') :
                  c.oid = oid =>
                     /\ c.ret = [ok |-> FALSE, reason |-> Some("not_found"),
                                 order |-> None]
                     /\ ORDERS' = ORDERS
                     /\ OVERRIDES' = OVERRIDES
            /\ \A g \in GetsIn(last') : g.oid = oid => g.ret = None]_vars

C6_Witness ==
    /\ last.op = "cancel_order"
    /\ last.arg = PyInt(12)
    /\ last.ret.reason = Some("not_found")

\* C7. Each entry of the Override Layer belongs to an order id that has a base
\* record whose base status is processing and for which some cancel call
\* returned ok=true, and its value is canceled; an entry, once there, is never
\* removed or changed.
C7_OverridesInv ==
    \A oid \in DOMAIN OVERRIDES :
        /\ oid \in DOMAIN ORDERS
        /\ ORDERS[oid].status = "processing"
        /\ oid \in canceled_ok
        /\ OVERRIDES[oid] = "canceled"

C7_OverridesMonotonic ==
    \A oid \in DOMAIN OVERRIDES :
        oid \in DOMAIN OVERRIDES' /\ OVERRIDES'[oid] = OVERRIDES[oid]

C7_Overrides == []C7_OverridesInv /\ [][C7_OverridesMonotonic]_vars

C7_Witness ==
    /\ DOMAIN OVERRIDES = CsvIds
    /\ last.op = "cancel_order_tool"
    /\ last.ret # None /\ ~last.ret[1].ok

\* C8. get and the find_order tool are read-only, and what get(order_id)
\* returns changes in no step other than a successful cancel of that id, so two
\* get calls with no successful cancel of the id between them return identical
\* results; every lookup a call reports is what get returns in the state the
\* call started in.
C8_ReadOnlyGet ==
    [][/\ \A a \in CallArgs :
            str(a) \notin SucceededCancels(last') =>
                get_order([ORDERS |-> ORDERS', OVERRIDES |-> OVERRIDES'], a).ret
                    = get_order(Store, a).ret
       /\ IsCall(last') =>
            /\ (last'.op \in {"get_order", "find_order_tool"}
                  \/ (last'.op = "chat_turn" /\ CancelsIn(last') = {}))
                 => ORDERS' = ORDERS /\ OVERRIDES' = OVERRIDES
            /\ \A g \in GetsIn(last') :
                  /\ g.ret = get_order(Store, PyStr(g.oid)).ret
                  /\ g.ret # None =>
                        /\ g.ret[1].order_id = g.oid
                        /\ g.ret[1].item = ORDERS[g.oid].item
                        /\ g.ret[1].status = EffStatus(ORDERS, OVERRIDES, g.oid)]_vars

C8_Witness ==
    /\ last.op = "find_order_tool"
    /\ last.ret # None
    /\ last.ret[1].found
    /\ last.ret[1].order[1].status = "processing"

\* C9. chat_turn, on the engine path and on the fallback path, leaves the history
\* it is given as it was: same messages, same order; when it returns, the new
\* assistant message is a return value.
C9_HistoryUntouched ==
    last.op = "chat_turn" =>
        /\ last.out.messages = last.messages
        /\ last.out.raised = "none" =>
              /\ last.out.assistant # None
              /\ last.out.assistant[1].role = "assistant"

C9_Witness ==
    /\ last.op = "chat_turn"
    /\ api_key
    /\ Len(last.messages) >= 2
    /\ last.out.tool_result # None

NoDigits(s) == \A i \in 1..Len(s) : s[i] \notin Digits

\* C10. In the fallback procedure a tool is invoked, and a tool result attached,
\* exactly when the history is non-empty, its last message has role user and an
\* order id is extracted from it; otherwise (empty history -> greeting, last role
\* not user -> awaiting instructions, no order id, as when the text has no
\* digits -> provide-an-order-ID prompt) the tool result is absent, no tool is
\* invoked and the Order Store is unchanged.  The result of an invoked tool is
\* attached even if the order is not found.
C10_FallbackToolIffIdExtracted ==
    (last.op = "chat_turn" /\ ~api_key) =>
        LET h == last.messages
            o == last.out
            lastUser == Len(h) > 0 /\ h[Len(h)].role = "user"
            extracted == lastUser
                           /\ re_search_order_id(lower(h[Len(h)].content)) # None
        IN /\ o.raised = "none"
           /\ (Len(o.tools) > 0) <=> extracted
           /\ (o.tool_result # None) <=> extracted
           /\ Len(o.tools) <= 1
           /\ (lastUser /\ NoDigits(h[Len(h)].content)) => ~extracted
           /\ ~extracted =>
                /\ ORDERS = last.pre.ORDERS
                /\ OVERRIDES = last.pre.OVERRIDES
                /\ o.assistant[1].content =
                      IF Len(h) = 0 THEN <<"Hello! What can I help you with?">>
                      ELSE IF ~lastUser THEN <<"Awaiting your instructions.">>
                      ELSE <<"Please provide an order ID.">>

C10_Witness ==
    /\ last.op = "chat_turn"
    /\ ~api_key
    /\ last.out.tool_result # None
    /\ "found" \in DOMAIN last.out.tool_result[1]
    /\ ~last.out.tool_result[1].found

\* The text s has the word w somewhere in it, letter case ignored.
HasWordAnyCase(s, w) ==
    \E i \in 0..(Len(s) - Len(w)) :
        \A k \in 1..Len(w) : LowerChar(s[i + k]) = w[k]

\* A fallback turn whose last message is a user message with an order id in it.
FallbackWithId(l) ==
    /\ l.op = "chat_turn"
    /\ ~api_key
    /\ Len(l.messages) > 0
    /\ l.messages[Len(l.messages)].role = "user"
    /\ re_search_order_id(lower(l.messages[Len(l.messages)].content)) # None

\* C11. In the fallback procedure, when an order id is extracted, the
\* cancel_order tool is invoked exactly once and find_order not at all if and
\* only if the lower-cased message contains the substring "cancel"; otherwise
\* find_order is invoked exactly once and cancel_order not at all.  So a fallback
\* turn whose message does not contain "cancel" changes no order's status.
C11_FallbackDispatch ==
    /\ FallbackWithId(last) =>
          LET text == last.messages[Len(last.messages)].content
              wanted == IF HasWordAnyCase(text, <<"c", "a", "n", "c", "e", "l">>)
                        THEN "cancel_order" ELSE "find_order"
          IN /\ Len(last.out.tools) = 1
             /\ last.out.tools[1].name = wanted
             /\ last.out.tools[1].args =
                   ArgStr(re_search_order_id(lower(text))[1])
    /\ (/\ last.op = "chat_turn"
        /\ ~api_key
        /\ \/ Len(last.messages) = 0
           \/ ~HasWordAnyCase(last.messages[Len(last.messages)].content,
                              <<"c", "a", "n", "c", "e", "l">>))
          => \A oid \in AllIds :
                   EffStatus(ORDERS, OVERRIDES, oid)
                     = EffStatus(last.pre.ORDERS, last.pre.OVERRIDES, oid)

\* "Cancel 2" typed with a capital letter cancels the processing order 2.
C11_Witness ==
    /\ FallbackWithId(last)
    /\ last.messages[Len(last.messages)].content[1] = "C"
    /\ Len(last.out.tools) = 1
    /\ last.out.tools[1].name = "cancel_order"
    /\ last.out.tool_result[1].ok

\* C12. The reply of the fallback agrees with the outcome of the tool it ran:
\* cancel ok -> "Order {id} has been canceled successfully." and the tool result
\* has order.status = canceled; cancel not_found or lookup found = false -> the
\* could-not-find reply for {id}; cancel immutable_status -> "Order {id} cannot
\* be canceled because it is {status}." with the effective status; lookup found
\* -> "Order {id} is currently {status}." with the status of the tool result.
C12_FallbackReplyAgrees ==
    FallbackWithId(last) =>
        LET call == last.out.tools[1]
            id == call.args.order_id
            tr == last.out.tool_result[1]
            reply == last.out.assistant[1].content
            notFound == <<"I couldn't find an order with ID ">> \o id \o <<".">>
            eff == EffStatus(ORDERS, OVERRIDES, id)
        IN /\ last.out.assistant[1].role = "assistant"
           /\ tr = model_dump(call.ret[1])
           /\ call.name = "cancel_order" =>
                /\ tr.ok =>
                     /\ reply = <<"Order ">> \o id
                                  \o <<" has been canceled successfully.">>
                     /\ tr.order[1].status = "canceled"
                     /\ eff = "canceled"
                /\ tr.reason = Some("not_found") =>
                     /\ reply = notFound
                     /\ eff = "absent"
                /\ tr.reason = Some("immutable_status") =>
                     /\ reply = <<"Order ">> \o id
                                  \o <<" cannot be canceled because it is ",
                                       eff, ".">>
                     /\ tr.order[1].status = eff
                     /\ eff \in {"shipped", "canceled"}
                /\ tr.ok \/ tr.reason \in {Some("not_found"),
                                           Some("immutable_status")}
           /\ call.name = "find_order" =>
                /\ tr.found =>
                     /\ reply = <<"Order ">> \o id
                                  \o <<" is currently ", tr.order[1].status, ".">>
                     /\ tr.order[1].status = eff
                /\ ~tr.found =>
                     /\ reply = notFound
                     /\ eff = "absent"

\* A cancel turn on an order that is shipped or already canceled.
C12_Witness ==
    /\ FallbackWithId(last)
    /\ last.out.tools[1].name = "cancel_order"
    /\ last.out.tool_result[1].reason = Some("immutable_status")
    /\ last.out.tool_result[1].order[1].status = "canceled"

\* A turn on the engine path.
EngineTurn(l) == l.op = "chat_turn" /\ api_key

\* C13. On the engine path, when the engine requests a tool and the argument
\* payload is not valid JSON, or the tool name is neither find_order nor
\* cancel_order, the turn ends at once with an assistant message describing the
\* failure and no tool result: no tool is invoked, no follow-up request is
\* sent, the primary request is not sent again, and the Order Store and the
\* history are unchanged.
C13_BadToolRequestEndsTurn ==
    (/\ EngineTurn(last)
     /\ last.engine.finish_reason = "function_call"
     /\ \/ ~last.engine.arguments.ok
        \/ last.engine.fn_name \notin {"find_order", "cancel_order"})
      => /\ last.out.raised = "none"
         /\ last.out.assistant =
               Some(Message("assistant",
                            IF ~last.engine.arguments.ok
                            THEN <<"Sorry, I couldn't parse the tool arguments.">>
                            ELSE <<"Unknown tool ", last.engine.fn_name, ".">>,
                            None))
         /\ last.out.tool_result = None
         /\ last.out.tools = <<>>
         /\ Len(last.out.requests) = 1
         /\ ORDERS = last.pre.ORDERS
         /\ OVERRIDES = last.pre.OVERRIDES
         /\ last.out.messages = last.messages

\* The engine asks for an unknown tool with well-formed arguments for an order
\* that could have been canceled.
C13_Witness ==
    /\ EngineTurn(last)
    /\ last.engine.finish_reason = "function_call"
    /\ last.engine.fn_name = "get_weather"
    /\ last.engine.arguments = Parsed(ArgStr(<<"2">>))
    /\ EffStatus(ORDERS, OVERRIDES, <<"2">>) = "processing"
    /\ last.out.assistant # None

\* C14. When a tool invoked during a turn rejects its arguments (the engine
\* supplies well-formed JSON without a valid order_id), the orchestrator
\* recovers locally: chat_turn still returns an assistant message with no tool
\* result, the error does not leave chat_turn, and the Order Store is unchanged.
C14_InvalidInputRecovered ==
    (/\ EngineTurn(last)
     /\ Len(last.out.tools) = 1
     /\ input_error(last.out.tools[1].args) # "none")
      => /\ last.out.raised = "none"
         /\ last.out.assistant # None
         /\ last.out.tool_result = None
         /\ ORDERS = last.pre.ORDERS
         /\ OVERRIDES = last.pre.OVERRIDES

\* A tool call, made directly.
ToolCallOp(l) == l.op \in {"find_order_tool", "cancel_order_tool"}

\* C15. Both tools validate their payload before touching the Order Store: for
\* every payload whose order_id is missing or is the empty string the tool
\* fails with an input error and the store is neither read for a result nor
\* changed; only payloads with a non-empty order_id reach get_order and
\* cancel_order.
C15_EmptyOrderIdRejected ==
    (/\ ToolCallOp(last)
     /\ \/ last.arg.type = "missing"
        \/ last.arg.type = "str" /\ last.arg.order_id = <<>>)
      => /\ last.raised = "ValueError"
         /\ last.ret = None
         /\ ORDERS = last.pre.ORDERS
         /\ OVERRIDES = last.pre.OVERRIDES

\* The number of messages of role r in the message list ms.
CountRole(ms, r) == Cardinality({i \in 1..Len(ms) : ms[i].role = r})

\* C16. Every error is turn-scoped and leaves shared state consistent: after
\* any turn made through post_message, a turn that ends in an error included,
\* the store has no override other than those written by cancels that returned
\* ok = True, and every conversation has one assistant message for each user
\* message appended.
C16_ErrorsTurnScoped ==
    /\ DOMAIN OVERRIDES \subseteq canceled_ok
    /\ \A cid \in DOMAIN CONVERSATIONS :
          CountRole(CONVERSATIONS[cid], "assistant")
            = CountRole(CONVERSATIONS[cid], "user")

\* The engine asked for find_order or cancel_order with arguments that parse.
Recognised(l) ==
    /\ l.engine.finish_reason = "function_call"
    /\ l.engine.arguments.ok
    /\ l.engine.fn_name \in {"find_order", "cancel_order"}

\* The first request of the turn carries the system prompt and then the whole
\* history, message by message, in order.
PrimaryCarriesHistory(l) ==
    /\ Len(l.out.requests) >= 1
    /\ Len(l.out.requests[1]) = Len(l.messages) + 1
    /\ l.out.requests[1][1].role = "system"
    /\ \A i \in 1..Len(l.messages) :
          /\ l.out.requests[1][i + 1].role = l.messages[i].role
          /\ l.out.requests[1][i + 1].content = l.messages[i].content

\* One tool invocation, then one follow-up request whose context is the primary
\* context plus the tool message; the turn returns that invocation's result.
ToolThenFollowup(l) ==
    /\ Len(l.out.tools) = 1
    /\ l.out.tools[1].name = l.engine.fn_name
    /\ l.out.tools[1].args = l.engine.arguments.value
    /\ l.out.tools[1].ret # None
    /\ Len(l.out.requests) = 2
    /\ l.out.requests[2] =
          Append(l.out.requests[1],
                 [role |-> "tool",
                  content |-> json_dumps(model_dump(l.out.tools[1].ret[1])),
                  name |-> Some(l.engine.fn_name)])
    /\ l.out.tool_result = Some(model_dump(l.out.tools[1].ret[1]))
    /\ l.out.raised = "none"
    /\ l.out.assistant # None

\* No tool invocation, no follow-up request, no tool result.
NoToolNoFollowup(l) ==
    /\ l.out.tools = <<>>
    /\ Len(l.out.requests) = 1
    /\ l.out.tool_result = None

C18_AppendOnly ==
    [][\A cid \in DOMAIN CONVERSATIONS :
          /\ cid \in DOMAIN CONVERSATIONS'
          /\ Len(CONVERSATIONS'[cid]) >= Len(CONVERSATIONS[cid])
          /\ SubSeq(CONVERSATIONS'[cid], 1, Len(CONVERSATIONS[cid]))
                = CONVERSATIONS[cid]
          /\ IF /\ last'.op = "post_message"
                /\ last'.status # 404
                /\ last'.conversation_id = cid
             THEN LET added == SubSeq(CONVERSATIONS'[cid],
                                      Len(CONVERSATIONS[cid]) + 1,
                                      Len(CONVERSATIONS'[cid]))
                      user == Message("user", last'.content, None)
                      tr == last'.out.tool_result
                  IN IF last'.status = 200
                     THEN /\ last'.out.assistant[1].role = "assistant"
                          /\ added =
                               IF tr # None
                               THEN <<user,
                                      Message("tool", json_dumps(tr[1]),
                                              Some("tool")),
                                      last'.out.assistant[1]>>
                               ELSE <<user, last'.out.assistant[1]>>
                     ELSE added = <<user>>
             ELSE CONVERSATIONS'[cid] = CONVERSATIONS[cid]]_vars

\* The second completed post of a conversation, with a tool result.
C18_Witness ==
    /\ last.op = "post_message"
    /\ last.status = 200
    /\ Len(last.before) >= 2
    /\ last.out.tool_result # None
    /\ Len(CONVERSATIONS[last.conversation_id]) = Len(last.before) + 3

\* C20. The fallback procedure depends only on the last message of the history
\* and on the Order Store: two non-empty histories with the same last message,
\* run against the same store, get the same assistant message and the same
\* tool result and leave the store in the same state, whatever the earlier
\* messages are.
C20_FallbackDependsOnTail ==
    (last.op = "chat_turn" /\ ~api_key /\ Len(last.messages) > 0) =>
        \A other \in Histories :
            (/\ Len(other) > 0
             /\ other[Len(other)] = last.messages[Len(last.messages)])
              => LET o2 == _fallback_chat_turn(last.pre, other) IN
                 /\ o2.assistant = last.out.assistant
                 /\ o2.tool_result = last.out.tool_result
                 /\ o2.raised = last.out.raised
                 /\ o2.S = Store

\* A lookup turn whose history has an earlier message asking for a cancel.
C20_Witness ==
    /\ last.op = "chat_turn"
    /\ ~api_key
    /\ Len(last.messages) = 2
    /\ last.messages[1].role = "user"
    /\ contains_cancel(lower(last.messages[1].content))
    /\ Len(last.out.tools) = 1
    /\ last.out.tools[1].name = "find_order"
    /\ last.out.tool_result[1].found

\* The record the store answers with for the existing order id oid: the base
\* record's order_id and item, the override as status if there is one and the
\* base status otherwise.
AnsweredOrder(orders, overrides, oid) ==
    [order_id |-> orders[oid].order_id,
     status |-> IF oid \in DOMAIN overrides THEN overrides[oid]
                ELSE orders[oid].status,
     item |-> orders[oid].item]

\* C21. Base order records are immutable after loading: no get, cancel, tool
\* call or turn adds, deletes or modifies an entry of ORDERS, and every value
\* that get or cancel returns for an existing order carries the base record's
\* order_id and item, with status equal to the override if one exists and the
\* base status otherwise.
C21_BaseRecordsImmutable ==
    [][/\ ORDERS' = ORDERS
       /\ \A oid \in DOMAIN ORDERS : ORDERS[oid].order_id = oid
       /\ \A g \in GetsIn(last') :
             g.ret # None =>
                /\ g.oid \in DOMAIN ORDERS
                /\ g.ret[1] = AnsweredOrder(ORDERS, OVERRIDES', g.oid)
       /\ \A c \in CancelsIn(last') :
             c.ret.order # None =>
                /\ c.oid \in DOMAIN ORDERS
                /\ c.ret.order[1] = AnsweredOrder(ORDERS, OVERRIDES', c.oid)]_vars

\* A cancel has returned ok = True with a canceled order while the base record
\* of that id still says processing.
C21_Witness ==
    /\ last.op = "cancel_order"
    /\ last.ret.ok
    /\ last.ret.order[1].status = "canceled"
    /\ ORDERS[str(last.arg)].status = "processing"
    /\ ORDERS = last.pre.ORDERS

\* The caller has taken the outcome of the last call; the next call can start.
NextCall ==
    /\ last # NoCall
    /\ last' = NoCall
    /\ UNCHANGED <<ORDERS, OVERRIDES, CONVERSATIONS, api_key, canceled_ok, posts,
                   raceVars, loopVars>>

-----------------------------------------------------------------------------
(* Conversation endpoints, app.py.  Each handler is a coroutine without an     *)
(* await in its body, so the event loop runs it from start to end as one step. *)

\* Conversation ids: the uuid4 of a new Conversation is one not yet in use.
ConvIds == 1..MaxConvs
\* The ids requests name: those of ConvIds and one that no conversation has.
RequestIds == 1..(MaxConvs + 1)

PostContents == {
    <<"c", "a", "n", "c", "e", "l", " ", "1">>,
    <<"1">>,
    <<"x", "1">> }

PostEngineResponses ==
    {DirectReply(<<"How can I help?">>),
     FunctionCall("cancel_order", Parsed(ArgStr(<<"1">>))),
     FunctionCall("find_order", Parsed(ArgStr(<<"1">>))),
     FunctionCall("find_order", Parsed(ArgMissing)),
     FunctionCall("find_order", Malformed),
     FunctionCall("get_weather", Parsed(ArgStr(<<"1">>)))}

\* app.py:55-61
create_conversation ==
    /\ last = NoCall
    /\ \E cid \in ConvIds \ DOMAIN CONVERSATIONS :
          /\ CONVERSATIONS' = DictSet(CONVERSATIONS, cid, <<>>)
          /\ last' = [op |-> "create_conversation", conversation_id |-> cid]
    /\ UNCHANGED <<ORDERS, OVERRIDES, api_key, canceled_ok, posts, raceVars, loopVars>>

\* app.py:76
IsVisible(m) == m.role \in {"user", "assistant"}

\* app.py:64-77
get_messages ==
    /\ last = NoCall
    /\ \E cid \in RequestIds :
          last' = IF cid \notin DOMAIN CONVERSATIONS
                  THEN [op |-> "get_messages", conversation_id |-> cid,
                        status |-> 404, messages |-> <<>>]
                  ELSE [op |-> "get_messages", conversation_id |-> cid,
                        status |-> 200,
                        messages |-> SelectSeq(CONVERSATIONS[cid], IsVisible)]
    /\ UNCHANGED <<ORDERS, OVERRIDES, CONVERSATIONS, api_key, canceled_ok, posts,
                   raceVars, loopVars>>

\* The turn recorded with the assistant message ahead of the tool message.
record_turn_AssistantFirst(messages, assistant_msg, tool_result) ==
    LET with_assistant == Append(messages, assistant_msg) IN
    IF tool_result # None
    THEN Append(with_assistant,
                Message("tool", json_dumps(tool_result[1]), Some("tool")))
    ELSE with_assistant

\* app.py:98-105: the tool message, if the turn returned a tool result, then
\* the assistant message are appended to the conversation.
record_turn(messages, assistant_msg, tool_result) ==
    LET with_tool == IF tool_result # None
                     THEN Append(messages,
                                 Message("tool", json_dumps(tool_result[1]),
                                         Some("tool")))
                     ELSE messages
    IN Append(with_tool, assistant_msg)

\* app.py:84-108.  An exception of chat_turn leaves the handler after the user
\* message was appended (status 500).
post_message_step(cid, content, engine) ==
    IF cid \notin DOMAIN CONVERSATIONS
    THEN /\ last' = [op |-> "post_message", conversation_id |-> cid,
                     status |-> 404, content |-> content]
         /\ UNCHANGED <<ORDERS, OVERRIDES, CONVERSATIONS, canceled_ok>>
    ELSE
    \E out \in {chat_turn(Store, api_key,
                          Append(CONVERSATIONS[cid], Message("user", content, None)),
                          engine)} :
    \E recorded \in {IF out.raised # "none" THEN out.messages
                     ELSE record_turn(out.messages, out.assistant[1],
                                      out.tool_result)} :
        /\ CONVERSATIONS' = [CONVERSATIONS EXCEPT ![cid] = recorded]
        /\ ORDERS' = out.S.ORDERS
        /\ OVERRIDES' = out.S.OVERRIDES
        /\ canceled_ok' = canceled_ok \cup CanceledBy(out.tools)
        /\ last' = [op |-> "post_message", conversation_id |-> cid,
                    status |-> IF out.raised # "none" THEN 500 ELSE 200,
                    content |-> content, engine |-> engine, out |-> out,
                    pre |-> Store, before |-> CONVERSATIONS[cid]]

post_message ==
    /\ last = NoCall
    /\ posts < MaxPosts
    /\ posts' = posts + 1
    /\ \E cid \in RequestIds, content \in PostContents :
          IF api_key
          THEN \E e \in PostEngineResponses : post_message_step(cid, content, e)
          ELSE post_message_step(cid, content, DirectReply(<<>>))
    /\ UNCHANGED <<api_key, raceVars, loopVars>>

NextApp ==
    \/ NextCall
    \/ create_conversation
    \/ get_messages
    \/ post_message

SpecApp == Init /\ [][NextApp]_vars

-----------------------------------------------------------------------------
(* post_message on the event loop, statement by statement.  The server runs   *)
(* every handler as a coroutine on one event loop; the loop takes up another  *)
(* request only when the running coroutine awaits or ends.                    *)

LoopContents == {
    <<"c", "a", "n", "c", "e", "l", " ", "1">>,
    <<"1">> }

LoopEngineResponses ==
    {DirectReply(<<"How can I help?">>),
     FunctionCall("cancel_order", Parsed(ArgStr(<<"1">>))),
     FunctionCall("find_order", Parsed(ArgMissing))}

\* A handler that awaits the turn: await chat_turn(conv.messages).
awaits_ChatTurn(step) == step = "chat_turn"

\* app.py:84-108: the statements of post_message at which the coroutine awaits.
\* The body has no await expression; chat_turn is a plain call.
awaits(step) == FALSE

\* The request the loop runs after request r has executed the statement step.
AfterStep(r, step) == IF awaits(step) THEN 0 ELSE r

DoneFrame == [IdleFrame EXCEPT !.pc = "done"]

\* The loop is free and starts the handler of the next request.
loop_accept(r) ==
    /\ running = 0
    /\ frames[r].pc = "idle"
    /\ \A q \in Requests : q < r => frames[q].pc # "idle"
    /\ \E cid \in RequestIds, content \in LoopContents,
          e \in IF api_key THEN LoopEngineResponses ELSE {DirectReply(<<>>)} :
          frames' = [frames EXCEPT ![r] =
                        [IdleFrame EXCEPT !.pc = "get", !.conversation_id = cid,
                                          !.content = content, !.engine = e]]
    /\ running' = r
    /\ UNCHANGED <<ORDERS, OVERRIDES, CONVERSATIONS, api_key, last, canceled_ok,
                   posts, raceVars>>

\* app.py:90-92
post_get(r) ==
    /\ running \in {0, r}
    /\ frames[r].pc = "get"
    /\ IF frames[r].conversation_id \notin DOMAIN CONVERSATIONS
       THEN /\ frames' = [frames EXCEPT ![r] = DoneFrame]
            /\ running' = 0
       ELSE /\ frames' = [frames EXCEPT
                  ![r].pc = "append_user",
                  ![r].before = Len(CONVERSATIONS[frames[r].conversation_id])]
            /\ running' = AfterStep(r, "get")
    /\ UNCHANGED <<ORDERS, OVERRIDES, CONVERSATIONS, api_key, last, canceled_ok,
                   posts, raceVars>>

\* app.py:94-95
post_append_user(r) ==
    /\ running \in {0, r}
    /\ frames[r].pc = "append_user"
    /\ LET user_msg == Message("user", frames[r].content, None) IN
       /\ CONVERSATIONS' = [CONVERSATIONS EXCEPT
                               ![frames[r].conversation_id] = Append(@, user_msg)]
       /\ frames' = [frames EXCEPT ![r].pc = "chat_turn",
                                   ![r].added = <<user_msg>>]
    /\ running' = AfterStep(r, "append_user")
    /\ UNCHANGED <<ORDERS, OVERRIDES, api_key, last, canceled_ok, posts, raceVars>>

\* app.py:97
post_chat_turn(r) ==
    /\ running \in {0, r}
    /\ frames[r].pc = "chat_turn"
    /\ \E out \in {chat_turn(Store, api_key,
                             CONVERSATIONS[frames[r].conversation_id],
                             frames[r].engine)} :
          /\ CONVERSATIONS' = [CONVERSATIONS EXCEPT
                                  ![frames[r].conversation_id] = out.messages]
          /\ ORDERS' = out.S.ORDERS
          /\ OVERRIDES' = out.S.OVERRIDES
          /\ canceled_ok' = canceled_ok \cup CanceledBy(out.tools)
          /\ IF out.raised # "none"
             THEN /\ frames' = [frames EXCEPT ![r] = DoneFrame]
                  /\ running' = 0
             ELSE /\ frames' = [frames EXCEPT
                                   ![r].pc = "append_tool",
                                   ![r].assistant_msg = out.assistant,
                                   ![r].tool_result = out.tool_result]
                  /\ running' = AfterStep(r, "chat_turn")
    /\ UNCHANGED <<api_key, last, posts, raceVars>>

\* app.py:99-103
post_append_tool(r) ==
    /\ running \in {0, r}
    /\ frames[r].pc = "append_tool"
    /\ IF frames[r].tool_result # None
       THEN LET tool_message == Message("tool",
                                        json_dumps(frames[r].tool_result[1]),
                                        Some("tool"))
            IN /\ CONVERSATIONS' =
                     [CONVERSATIONS EXCEPT
                         ![frames[r].conversation_id] = Append(@, tool_message)]
               /\ frames' = [frames EXCEPT
                                ![r].pc = "append_assistant",
                                ![r].added = Append(@, tool_message)]
       ELSE /\ CONVERSATIONS' = CONVERSATIONS
            /\ frames' = [frames EXCEPT ![r].pc = "append_assistant"]
    /\ running' = AfterStep(r, "append_tool")
    /\ UNCHANGED <<ORDERS, OVERRIDES, api_key, last, canceled_ok, posts, raceVars>>

\* app.py:105
post_append_assistant(r) ==
    /\ running \in {0, r}
    /\ frames[r].pc = "append_assistant"
    /\ CONVERSATIONS' = [CONVERSATIONS EXCEPT
                            ![frames[r].conversation_id] =
                                Append(@, frames[r].assistant_msg[1])]
    /\ frames' = [frames EXCEPT
                     ![r].pc = "return",
                     ![r].added = Append(@, frames[r].assistant_msg[1])]
    /\ running' = AfterStep(r, "append_assistant")
    /\ UNCHANGED <<ORDERS, OVERRIDES, api_key, last, canceled_ok, posts, raceVars>>

\* app.py:106-108
post_return(r) ==
    /\ running \in {0, r}
    /\ frames[r].pc = "return"
    /\ frames' = [frames EXCEPT ![r] = DoneFrame]
    /\ running' = 0
    /\ UNCHANGED <<ORDERS, OVERRIDES, CONVERSATIONS, api_key, last, canceled_ok,
                   posts, raceVars>>

\* create_conversation has no await either: the loop runs it when it is free.
loop_create_conversation ==
    /\ running = 0
    /\ create_conversation

NextLoop ==
    \/ NextCall
    \/ loop_create_conversation
    \/ \E r \in Requests :
          \/ loop_accept(r)
          \/ post_get(r)
          \/ post_append_user(r)
          \/ post_chat_turn(r)
          \/ post_append_tool(r)
          \/ post_append_assistant(r)
          \/ post_return(r)

SpecLoop == Init /\ [][NextLoop]_vars

\* The handler of request r has started and not ended.
InFlight(r) == frames[r].pc \notin {"idle", "done"}

\* C19. Turns on the same conversation are serialized: at most one
\* post_message turn is in flight per conversation at any time, so the messages
\* a turn appends (user, optional tool, assistant) are contiguous in the
\* history and never interleaved with those of another turn on that
\* conversation.
C19_TurnsSerialized ==
    /\ \A r1, r2 \in Requests :
          (r1 # r2 /\ InFlight(r1) /\ InFlight(r2))
             => frames[r1].conversation_id # frames[r2].conversation_id
    /\ \A r \in Requests :
          frames[r].pc \in {"chat_turn", "append_tool", "append_assistant",
                            "return"}
             => LET conv == CONVERSATIONS[frames[r].conversation_id] IN
                /\ Len(conv) = frames[r].before + Len(frames[r].added)
                /\ SubSeq(conv, frames[r].before + 1, Len(conv)) = frames[r].added
    /\ \A r \in Requests :
          frames[r].pc = "return"
             => LET added == frames[r].added IN
                /\ added[1] = Message("user", frames[r].content, None)
                /\ Len(added) = IF frames[r].tool_result # None THEN 3 ELSE 2
                /\ Len(added) = 3 => added[2].role = "tool"
                /\ added[Len(added)] = frames[r].assistant_msg[1]
                /\ added[Len(added)].role = "assistant"

\* The second request ends a turn with a tool result on a conversation that
\* already holds the messages of the first.
C19_Witness ==
    /\ frames[1].pc = "done"
    /\ frames[2].pc = "return"
    /\ frames[2].before >= 2
    /\ Len(frames[2].added) = 3

-----------------------------------------------------------------------------
(* The bulk loader, orders.py:33-49, run once when the module is imported     *)
(* (orders.py:83).  A row of the order file is what csv.DictReader yields: for *)
(* each column the text of the cell, or None when the row is too short.       *)

MaxRows == 2

RowIds == {None, Some(<<>>), Some(<<"1">>), Some(<<"2">>)}
RowStatuses == {Some(""), Some("processing"), Some("shipped"), Some("pending")}
RowItems == {None, Some("phone"), Some("case")}

Rows == [order_id : RowIds, status : RowStatuses, item : RowItems]

\* orders.py:43: not order_id or not status or not item
Incomplete(row) ==
    \/ row.order_id = None
    \/ Len(row.order_id[1]) = 0
    \/ row.status = None
    \/ row.status[1] = ""
    \/ row.item = None
    \/ row.item[1] = ""

\* orders.py:40-49, the loop over the rows: an incomplete row is passed over;
\* Order(...) validates the status against the Literal of models.py:21-23 and
\* raises for any other text, which ends the load; an id already in ORDERS
\* keeps its record.
RECURSIVE load_rows(_, _)
load_rows(orders, rows) ==
    IF rows = <<>>
    THEN [ORDERS |-> orders, raised |-> "none"]
    ELSE LET row == Head(rows) IN
         IF Incomplete(row)
         THEN load_rows(orders, Tail(rows))
         ELSE IF row.status[1] \notin Statuses
         THEN [ORDERS |-> orders, raised |-> "ValidationError"]
         ELSE LET oid == row.order_id[1]
                  ord == Order(oid, row.status[1], row.item[1])
              IN IF oid \notin DOMAIN orders
                 THEN load_rows(DictSet(orders, oid, ord), Tail(rows))
                 ELSE load_rows(orders, Tail(rows))

\* orders.py:33-49: ORDERS.clear(), then the rows in file order.
_load_orders(rows) == load_rows(<<>>, rows)

\* The module is being imported: both maps are empty (orders.py:26-27).
Importing == [op |-> "import"]

InitLoad ==
    /\ ORDERS = <<>>
    /\ OVERRIDES = <<>>
    /\ CONVERSATIONS = <<>>
    /\ api_key \in BOOLEAN
    /\ last = Importing
    /\ canceled_ok = {}
    /\ posts = 0
    /\ InitRace
    /\ InitLoop

\* orders.py:83
LoadOrdersCall ==
    /\ last = Importing
    /\ \E rows \in SeqsUpTo(Rows, MaxRows) :
          \E r \in {_load_orders(rows)} :
              /\ ORDERS' = r.ORDERS
              /\ last' = [op |-> "_load_orders", rows |-> rows,
                          raised |-> r.raised]
    /\ UNCHANGED <<OVERRIDES, CONVERSATIONS, api_key, canceled_ok, posts,
                   raceVars, loopVars>>

NextLoad == LoadOrdersCall

SpecLoad == InitLoad /\ [][NextLoad]_vars

\* A row with every field present and non-empty and a status of the three.
WellFormed(row) == ~Incomplete(row) /\ row.status[1] \in Statuses

\* C22. The bulk loader, for every sequence of input rows, ends with a base
\* record map in which each malformed or incomplete row (an empty or missing
\* field, or a status outside processing/shipped/canceled) is skipped without
\* aborting the load, and each order id maps to the first well-formed row that
\* carries it, later duplicates being ignored.
C22_LoaderSkipsMalformedRows ==
    last.op = "_load_orders" =>
        LET rows == last.rows
            good == {i \in 1..Len(rows) : WellFormed(rows[i])}
            first(oid) == CHOOSE i \in good :
                             /\ rows[i].order_id[1] = oid
                             /\ \A j \in good :
                                   rows[j].order_id[1] = oid => i <= j
        IN /\ last.raised = "none"
           /\ DOMAIN ORDERS = {rows[i].order_id[1] : i \in good}
           /\ \A oid \in DOMAIN ORDERS :
                 ORDERS[oid] = Order(oid, rows[first(oid)].status[1],
                                     rows[first(oid)].item[1])

-----------------------------------------------------------------------------

Next ==
    \/ NextCall
    \/ GetOrderCall
    \/ CancelOrderCall
    \/ FindOrderToolCall
    \/ CancelOrderToolCall
    \/ FallbackTurnCall
    \/ EngineTurnCall

Spec == Init /\ [][Next]_vars

====
